---- MODULE Spec2Model ----
(***************************************************************************)
(* A model of main_SuperOpsTickets_import.py: the migration of SuperOps    *)
(* tickets into Syncro.  Python values are tagged records, strings are     *)
(* sequences of one-character strings, an exception is the value           *)
(* Raise(name).  The pure functions of the module are operators; the       *)
(* orchestrator (process_tickets / process_customer_tickets /              *)
(* process_individual_ticket) is a state machine over the source data,     *)
(* the destination platform and the log of destination write calls.        *)
(***************************************************************************)
EXTENDS Integers, Sequences, FiniteSets, TLC

VARIABLES
    customers_tickets,   \* the aggregated source data: <<[name, tickets]>>, in dict order
    syncro_customers,    \* the customer names the destination knows
    syncro_tickets,      \* destination tickets per customer name
    run,                 \* the number of the migration run in progress
    lastRun,             \* how many runs are made in succession
    pc,                  \* where the running program is
    ci,                  \* process_tickets: index of the current customer
    ti,                  \* process_customer_tickets: index of the current ticket
    matched_ticket_ids,  \* process_customer_tickets: the customer's match set
    calls,               \* every destination write call issued, in order
    outcomes,            \* per processed ticket: the path process_individual_ticket took
    custlog,             \* per processed customer: how process_customer_tickets began
    args,                \* the arguments of the pure function under check
    result               \* what the pure function returned

vars == <<customers_tickets, syncro_customers, syncro_tickets, run, lastRun, pc, ci, ti,
          matched_ticket_ids, calls, outcomes, custlog, args, result>>

orchVars == <<customers_tickets, syncro_customers, syncro_tickets, run, lastRun, ci, ti,
              matched_ticket_ids, calls, outcomes, custlog>>

(***************************************************************************)
(* Bounds of the model.                                                    *)
(***************************************************************************)
MaxTickets == 2      \* source tickets of the first customer
MaxNotes == 2        \* notes handed to combine_notes_and_conversations
MaxMergeConvs == 2   \* conversations handed to combine_notes_and_conversations
MaxConvs == 3        \* conversations handed to get_assigned_tech_and_user
MaxSrc == 2          \* source tickets handed to compare_tickets_by_subject
MaxDst == 2          \* destination tickets handed to compare_tickets_by_subject

(***************************************************************************)
(* Python values.                                                          *)
(***************************************************************************)
None == [tag |-> "None"]
Absent == [tag |-> "absent"]                 \* a key the dict does not hold
PyInt(n) == [tag |-> "int", val |-> n]
PyStr(s) == [tag |-> "str", val |-> s]
PyList(s) == [tag |-> "list", val |-> s]
PyDict(name) == [tag |-> "dict", name |-> name]   \* a user mapping; name may be Absent
Lit(s) == [tag |-> "lit", val |-> s]         \* a string the code only compares as a whole
Raise(e) == [tag |-> "raise", exc |-> e]
IsRaise(v) == v.tag = "raise"

\* dict.get(key, default): the default only when the key is absent
Get(v, default) == IF v = Absent THEN default ELSE v

\* dict.get(key): None when the key is absent
GetOrNone(v) == Get(v, None)

\* Python truthiness, as used by `not x` / `if x`
Truthy(v) ==
    CASE v.tag = "None" -> FALSE
      [] v.tag = "absent" -> FALSE
      [] v.tag = "int" -> v.val # 0
      [] v.tag = "str" -> v.val # <<>>
      [] v.tag = "list" -> v.val # <<>>
      [] v.tag = "lit" -> v.val # ""
      [] OTHER -> TRUE

Digits == <<"0", "1", "2", "3", "4", "5", "6", "7", "8", "9">>

\* str(n) for a non-negative int: its decimal digits
RECURSIVE IntToStr(_)
IntToStr(n) ==
    IF n < 10 THEN <<Digits[n + 1]>>
    ELSE IntToStr(n \div 10) \o <<Digits[(n % 10) + 1]>>

\* str(v), also what an f-string puts for {v}
StrOf(v) ==
    CASE v.tag = "None" -> <<"N", "o", "n", "e">>
      [] v.tag = "int" -> IntToStr(v.val)
      [] v.tag = "str" -> v.val

\* a in b, for two strings
IsSubstring(a, b) ==
    \E i \in 0..(Len(b) - Len(a)) : SubSeq(b, i + 1, i + Len(a)) = a

\* the characters the model's timestamps use, in code-point order
CodePoints == <<" ", "0", "1", "2", "3", "4", "5", "6", "7", "8", "9",
                "T", "U", "e", "i", "k", "m", "n", "o", "w">>

Ord(c) == CHOOSE i \in 1..Len(CodePoints) : CodePoints[i] = c

\* a < b for two strings: lexicographic by code point
RECURSIVE StrLess(_, _)
StrLess(a, b) ==
    IF b = <<>> THEN FALSE
    ELSE IF a = <<>> THEN TRUE
    ELSE IF Ord(Head(a)) # Ord(Head(b)) THEN Ord(Head(a)) < Ord(Head(b))
    ELSE StrLess(Tail(a), Tail(b))

\* whether a < b is defined: int with int, str with str; anything else is a TypeError
Comparable(a, b) == a.tag = b.tag /\ a.tag \in {"int", "str"}

\* a < b for two comparable values
PyLess(a, b) == IF a.tag = "int" THEN a.val < b.val ELSE StrLess(a.val, b.val)

(***************************************************************************)
(* get_assigned_tech_and_user (lines 80-106).  A conversation is a record  *)
(* [type, content, user, time, toUsers]; a field the dict does not hold is *)
(* Absent.                                                                 *)
(***************************************************************************)
TECH_REPLY == Lit("TECH_REPLY")
DESCRIPTION == Lit("DESCRIPTION")
NOTE == Lit("NOTE")
Unknown == Lit("Unknown")
NoContent == Lit("No Content")
UnknownTime == PyStr(<<"U", "n", "k", "n", "o", "w", "n", " ", "T", "i", "m", "e">>)

\* [conv for conv in conversations if conv.get('type') == 'TECH_REPLY']
TechReplies(conversations) ==
    SelectSeq(conversations, LAMBDA conv : GetOrNone(conv.type) = TECH_REPLY)

\* whether max(..., key=lambda x: x['time']) raises: a KeyError for an entry without a
\* time, a TypeError when it compares two times that have no order
MaxRaises(replies) ==
    \/ \E i \in 1..Len(replies) : replies[i].time = Absent
    \/ /\ Len(replies) >= 2
       /\ \E i, j \in 1..Len(replies) : ~Comparable(replies[i].time, replies[j].time)

\* (mutant) the selection of the earliest reply: min instead of max
TechReplyMin(best, item) == PyLess(item.time, best.time)

\* max replaces its candidate only by an item whose key is strictly greater
TechReplyBetter(best, item) == PyLess(best.time, item.time)

RECURSIVE SelectFrom(_, _)
SelectFrom(best, rest) ==
    IF rest = <<>> THEN best
    ELSE IF TechReplyBetter(best, Head(rest)) THEN SelectFrom(Head(rest), Tail(rest))
    ELSE SelectFrom(best, Tail(rest))

\* (mutant) the first TECH_REPLY is taken, whether or not the selection can be made
FirstTechReply(conversations) ==
    LET tech_replies == TechReplies(conversations) IN
    IF tech_replies = <<>> THEN [tech |-> None, to_users |-> PyList(<<>>)]
    ELSE [tech |-> Get(Head(tech_replies).user, None),
          to_users |-> Get(Head(tech_replies).toUsers, PyList(<<>>))]

get_assigned_tech_and_user(conversations) ==
    LET tech_replies == TechReplies(conversations) IN
    IF tech_replies = <<>> THEN [tech |-> None, to_users |-> PyList(<<>>)]
    ELSE IF MaxRaises(tech_replies) THEN [tech |-> None, to_users |-> PyList(<<>>)]
    ELSE LET oldest_tech_reply == SelectFrom(Head(tech_replies), Tail(tech_replies)) IN
         [tech |-> Get(oldest_tech_reply.user, None),
          to_users |-> Get(oldest_tech_reply.toUsers, PyList(<<>>))]

(***************************************************************************)
(* combine_notes_and_conversations (lines 199-239).  A note is a record    *)
(* [content, addedBy, addedOn].                                            *)
(***************************************************************************)
NoHistory == <<Lit("No notes or conversations found.")>>

\* note.get("addedBy", {}).get("name", "Unknown")
NoteUser(note) ==
    LET addedBy == note.addedBy IN
    IF addedBy = Absent THEN Unknown
    ELSE IF addedBy.tag = "dict" THEN Get(addedBy.name, Unknown)
    ELSE Raise("AttributeError")

NoteItem(note) ==
    [type |-> NOTE,
     content |-> Get(note.content, NoContent),
     user |-> NoteUser(note),
     time |-> Get(note.addedOn, UnknownTime)]

\* (mutant) the author of a conversation read the way the author of a note is
ConvUserStrict(conv) ==
    IF conv.user = Absent THEN Unknown
    ELSE IF conv.user.tag = "dict" THEN Get(conv.user.name, Unknown)
    ELSE Raise("AttributeError")

\* user_info = conv.get("user"), replaced by {} unless it is a dict
ConvUser(conv) ==
    LET user_info == GetOrNone(conv.user) IN
    IF user_info.tag = "dict" THEN Get(user_info.name, Unknown) ELSE Unknown

ConvItem(conv) ==
    [type |-> Get(conv.type, Unknown),
     content |-> Get(conv.content, NoContent),
     user |-> ConvUser(conv),
     time |-> Get(conv.time, UnknownTime)]


\* (mutant) the sort in descending order of the key
SortsAfter(x, y) == PyLess(y.time, x.time)

\* the sort's order test on the key x["time"]: ascending
SortsBefore(x, y) == PyLess(x.time, y.time)

\* list.sort is stable: an item goes behind every item that is not greater
RECURSIVE InsertByTime(_, _)
InsertByTime(x, s) ==
    IF s = <<>> THEN <<x>>
    ELSE IF SortsBefore(x, Head(s)) THEN <<x>> \o s
    ELSE <<Head(s)>> \o InsertByTime(x, Tail(s))

RECURSIVE SortPrefix(_, _)
SortPrefix(items, n) ==
    IF n = 0 THEN <<>> ELSE InsertByTime(items[n], SortPrefix(items, n - 1))

\* merged_items.sort(key=lambda x: x["time"]): a TypeError when two keys have no order
SortByTime(items) ==
    IF /\ Len(items) >= 2
       /\ \E i, j \in 1..Len(items) : ~Comparable(items[i].time, items[j].time)
    THEN Raise("TypeError")
    ELSE PyList(SortPrefix(items, Len(items)))

\* the value returned, or Raise(e) for the exception that leaves the function
combine_notes_and_conversations(notes, conversations) ==
    IF \E i \in 1..Len(notes) : IsRaise(NoteUser(notes[i])) THEN Raise("AttributeError")
    ELSE LET merged_items == [i \in 1..Len(notes) |-> NoteItem(notes[i])]
                               \o [i \in 1..Len(conversations) |-> ConvItem(conversations[i])]
             sorted == SortByTime(merged_items)
         IN  IF IsRaise(sorted) THEN sorted
             ELSE IF sorted.val # <<>> THEN sorted ELSE PyList(NoHistory)

(***************************************************************************)
(* compare_tickets_by_subject (lines 338-396): Strategy B.  A source       *)
(* ticket is a ticket_info record, a destination ticket a record with a    *)
(* subject.                                                                *)
(***************************************************************************)
\* (mutant) equality in place of the substring test
SubjectEquals(displayId, syncro_subject) == StrOf(displayId) = syncro_subject.val

\* str(displayId) in syncro_subject
SubjectHolds(displayId, syncro_subject) == IsSubstring(StrOf(displayId), syncro_subject.val)


\* (mutant) an identifier is appended whether or not the list holds it
AlwaysAppend(id, matched_tickets) == TRUE

\* lines 318 and 378: if ... not in matched_tickets
NotYetMatched(id, matched_tickets) ==
    \A k \in 1..Len(matched_tickets) : matched_tickets[k] # id

\* the inner loop over the destination tickets: whether some ticket with a subject matches
MatchesSome(displayId, syncro) ==
    \E j \in 1..Len(syncro) :
        /\ Truthy(GetOrNone(syncro[j].subject))
        /\ SubjectHolds(displayId, syncro[j].subject)

RECURSIVE CompareFrom(_, _, _)
CompareFrom(matched_tickets, superops, syncro) ==
    IF superops = <<>> THEN matched_tickets
    ELSE LET ticket_info == Head(superops)
             subject == ticket_info.subject
             displayId == ticket_info.displayId
             found == /\ Truthy(subject)
                      /\ Truthy(displayId)
                      /\ MatchesSome(displayId, syncro)
                      /\ NotYetMatched(displayId, matched_tickets)
         IN  CompareFrom(IF found THEN Append(matched_tickets, displayId) ELSE matched_tickets,
                         Tail(superops), syncro)

compare_tickets_by_subject(superops_tickets, syncro) ==
    CompareFrom(<<>>, superops_tickets, syncro)

(***************************************************************************)
(* compare_tickets_by_subject_and_date (lines 275-336): Strategy A.  The   *)
(* identifier of a source ticket is its key in superops_tickets, here its   *)
(* position.  The log line of a match reads syncro_ticket['ticket_id']      *)
(* after the identifier was appended, so it cannot change the list.         *)
(***************************************************************************)
\* the inner loop: whether some destination ticket with subject and created_at has
\* the subject and the created time of the source ticket
DateMatchesSome(subject, created_time, syncro) ==
    \E j \in 1..Len(syncro) :
        /\ Truthy(GetOrNone(syncro[j].subject))
        /\ Truthy(GetOrNone(syncro[j].created_at))
        /\ subject = syncro[j].subject
        /\ created_time = syncro[j].created_at

RECURSIVE CompareByDateFrom(_, _, _, _)
CompareByDateFrom(matched_tickets, ticket_id, superops, syncro) ==
    IF ticket_id > Len(superops) THEN matched_tickets
    ELSE LET ticket_info == superops[ticket_id]
             subject == GetOrNone(ticket_info.subject)
             created_time == GetOrNone(ticket_info.created_time)
             found == /\ Truthy(subject)
                      /\ Truthy(created_time)
                      /\ DateMatchesSome(subject, created_time, syncro)
                      /\ NotYetMatched(PyInt(ticket_id), matched_tickets)
         IN  CompareByDateFrom(IF found THEN Append(matched_tickets, PyInt(ticket_id))
                                        ELSE matched_tickets,
                               ticket_id + 1, superops, syncro)

compare_tickets_by_subject_and_date(superops_tickets, syncro) ==
    CompareByDateFrom(<<>>, 1, superops_tickets, syncro)

(***************************************************************************)
(* The inputs the pure functions are checked on.                           *)
(***************************************************************************)
SeqsUpTo(S, n) == UNION {[1..k -> S] : k \in 0..n}

Time2024 == PyStr(<<"2", "0", "2", "4">>)
Time2025 == PyStr(<<"2", "0", "2", "5">>)

Conv(type, user, time, toUsers) ==
    [type |-> type, content |-> Lit("text"), user |-> user, time |-> time, toUsers |-> toUsers]

ConvSet ==
    { Conv(TECH_REPLY, PyDict(Lit("Tech1")), PyInt(1), PyList(<<Lit("User1")>>)),
      Conv(TECH_REPLY, PyDict(Lit("Tech2")), PyInt(2), PyList(<<Lit("User2")>>)),
      Conv(TECH_REPLY, PyDict(Lit("Tech3")), PyInt(2), Absent),
      Conv(TECH_REPLY, PyDict(Lit("Tech4")), Absent, PyList(<<Lit("User4")>>)),
      Conv(Lit("CUSTOMER_REPLY"), PyDict(Lit("Customer")), PyInt(3), PyList(<<Lit("Tech")>>)),
      Conv(DESCRIPTION, None, PyInt(0), Absent),
      Conv(Absent, Absent, Time2025, Absent),
      Conv(Lit("CUSTOMER_REPLY"), Lit("Customer"), Time2024, Absent) }

Note(addedBy, addedOn) == [content |-> Lit("note"), addedBy |-> addedBy, addedOn |-> addedOn]

NoteSet ==
    { Note(PyDict(Lit("Ann")), PyInt(1)),
      Note(PyDict(Absent), PyInt(2)),
      Note(Absent, Time2024),
      Note(PyDict(Lit("Bob")), Absent),
      Note(None, PyInt(3)) }

Subject(s) == PyStr(s)
Fix == <<"F", "i", "x">>
Fix77 == <<"F", "i", "x", " ", "7", "7">>
Order4521 == <<"O", "r", "d", "e", "r", " ", "4", "5", "2", "1">>
Resolved77 ==
    <<"P", "r", "i", "n", "t", "e", "r", " ", "b", "r", "o", "k", "e", "n", " ", "7", "7">> \o
    <<" ", "(", "r", "e", "s", "o", "l", "v", "e", "d", ")">>

SrcTicket(subject, displayId) ==
    [subject |-> subject, displayId |-> displayId, created_time |-> Time2024]

SrcSet ==
    { SrcTicket(Subject(Fix), PyInt(77)),
      SrcTicket(Subject(Fix), PyInt(45)),
      SrcTicket(Subject(Fix), PyInt(0)),
      SrcTicket(Subject(Fix), None),
      SrcTicket(Subject(<<>>), PyInt(77)),
      SrcTicket(None, PyInt(45)) }

DstTicket(subject) == [subject |-> subject, created_at |-> Time2024]

DstSet ==
    { DstTicket(Subject(Fix77)),
      DstTicket(Subject(Order4521)),
      DstTicket(Subject(Resolved77)),
      DstTicket(Subject(<<>>)),
      DstTicket(None) }

NotCalled == [tag |-> "not called"]

\* the orchestrator at rest, while a pure function is checked
OrchIdle ==
    /\ customers_tickets = <<>>
    /\ syncro_customers = {}
    /\ syncro_tickets = <<>>
    /\ run = 0
    /\ lastRun = 0
    /\ ci = 0
    /\ ti = 0
    /\ matched_ticket_ids = <<>>
    /\ calls = <<>>
    /\ outcomes = <<>>
    /\ custlog = <<>>

InitMerge ==
    /\ OrchIdle
    /\ pc = "call"
    /\ args \in [notes : SeqsUpTo(NoteSet, MaxNotes),
                 conversations : SeqsUpTo(ConvSet, MaxMergeConvs)]
    /\ result = NotCalled

CallCombine ==
    /\ pc = "call"
    /\ result' = combine_notes_and_conversations(args.notes, args.conversations)
    /\ pc' = "returned"
    /\ UNCHANGED <<args, orchVars>>

SpecMerge == InitMerge /\ [][CallCombine]_vars

InitTech ==
    /\ OrchIdle
    /\ pc = "call"
    /\ args \in [conversations : SeqsUpTo(ConvSet, MaxConvs)]
    /\ result = NotCalled

CallAssignedTech ==
    /\ pc = "call"
    /\ result' = get_assigned_tech_and_user(args.conversations)
    /\ pc' = "returned"
    /\ UNCHANGED <<args, orchVars>>

SpecTech == InitTech /\ [][CallAssignedTech]_vars

InitCompare ==
    /\ OrchIdle
    /\ pc = "call"
    /\ args \in [superops_tickets : SeqsUpTo(SrcSet, MaxSrc),
                 syncro_tickets : SeqsUpTo(DstSet, MaxDst)]
    /\ result = NotCalled

CallCompare ==
    /\ pc = "call"
    /\ result' = PyList(compare_tickets_by_subject(args.superops_tickets, args.syncro_tickets))
    /\ pc' = "returned"
    /\ UNCHANGED <<args, orchVars>>

SpecCompare == InitCompare /\ [][CallCompare]_vars

(***************************************************************************)
(* The external collaborators of the orchestrator (syncro_utils,           *)
(* syncro_read, syncro_write), as section 6 of the specification gives     *)
(* them.  A created time is [tag |-> "time", date, off]: the wall-clock     *)
(* fields <<Y, M, D, h, m, s>> and the UTC offset in minutes.               *)
(***************************************************************************)
Time(date, off) == [tag |-> "time", date |-> date, off |-> off]

\* get_syncro_created_date: the created time in the destination's format
\* "%Y-%m-%dT%H:%M:%S%z"; a value that is no time cannot be converted
get_syncro_created_date(created_time) ==
    IF created_time.tag = "time"
    THEN [tag |-> "isostr", date |-> created_time.date, off |-> created_time.off]
    ELSE Raise("ValueError")

\* syncro_prepare_ticket_json_superops: the payload of createTicket
syncro_prepare_ticket_json_superops(client, ticket_id, subject, converted_created_time) ==
    [customer |-> client, subject |-> subject, created_at |-> converted_created_time]

\* extract_ticket_subjects_and_dates: subject and created_at of each destination ticket
extract_ticket_subjects_and_dates(tickets) ==
    [j \in 1..Len(tickets) |->
        [subject |-> tickets[j].subject, created_at |-> tickets[j].created_at]]

\* the results get_all_tickets_for_customer can have: the list, an empty list after a
\* failed fetch, an exception
FetchOutcomes == {"ok", "empty", "raise"}

\* the results syncro_create_ticket can have: {"ticket": {...}}, an empty response, a
\* response without "ticket", an exception
CreateOutcomes == {"ok", "empty", "no_ticket", "raise"}

\* per timeline entry: the comment is built and submitted, build_syncro_comment
\* raises, syncro_create_comment raises
CommentOutcomes == {"ok", "build_error", "submit_error"}

(***************************************************************************)
(* process_individual_ticket (lines 454-551).                              *)
(***************************************************************************)
\* datetime.strptime(created_at, "%Y-%m-%dT%H:%M:%S%z"): an aware datetime
Strptime(created_at) ==
    [tag |-> "datetime", date |-> created_at.date, tzinfo |-> PyInt(created_at.off)]

cutoff_date == [tag |-> "datetime", date |-> <<2024, 4, 1, 0, 0, 0>>, tzinfo |-> None]

\* datetime.replace(tzinfo=...)
ReplaceTzinfo(dt, tzinfo) == [dt EXCEPT !.tzinfo = tzinfo]

RECURSIVE TupleLess(_, _)
TupleLess(a, b) ==
    IF a = <<>> \/ b = <<>> THEN FALSE
    ELSE IF Head(a) # Head(b) THEN Head(a) < Head(b)
    ELSE TupleLess(Tail(a), Tail(b))

\* a < b for two datetimes that carry the same tzinfo: Python compares the
\* wall-clock fields
DatetimeLess(a, b) == TupleLess(a.date, b.date)

\* ticket_created_time < cutoff_date.replace(tzinfo=ticket_created_time.tzinfo)
TooOld(ticket_created_time) ==
    DatetimeLess(ticket_created_time, ReplaceTzinfo(cutoff_date, ticket_created_time.tzinfo))

\* extract_notes_and_conversations (lines 571-600): a value that is no list becomes []
extract_notes_and_conversations(ticket_info) ==
    [notes |-> IF ticket_info.notes.tag = "list" THEN ticket_info.notes ELSE PyList(<<>>),
     conversations |-> IF ticket_info.conversations.tag = "list"
                       THEN ticket_info.conversations ELSE PyList(<<>>)]

\* displayId in matched_ticket_ids
InList(v, list) == \E k \in 1..Len(list) : list[k] = v

\* (mutant) the match test dropped: every ticket is taken as unmatched
NeverMatched(displayId, matched) == FALSE

AlreadyMatched(displayId, matched) == InList(displayId, matched)

\* how process_individual_ticket ended without reaching syncro_create_ticket
Ended(status, exc) ==
    [status |-> status, exc |-> exc, calls |-> <<>>, created |-> <<>>, errors |-> 0,
     attempted |-> <<>>]

\* lines 466-509: the ticket up to the call of syncro_create_ticket.  The result is
\* Ended(...) or the payload and the timeline the creation goes on with.
BeforeCreate(client, ticket_id, ticket_info, matched) ==
    LET displayId == ticket_info.displayId IN
    IF ticket_info.subject.tag # "str" THEN Ended("Failed", "TypeError")
    ELSE
    LET subject == PyStr(ticket_info.subject.val \o <<" ">> \o StrOf(displayId))
        created_time == ticket_info.created_time
    IN
    IF ~Truthy(subject) \/ ~Truthy(created_time) THEN Ended("GateSkipped", "")
    ELSE
    LET converted_created_time == get_syncro_created_date(created_time) IN
    IF IsRaise(converted_created_time) THEN Ended("Failed", converted_created_time.exc)
    ELSE
    LET nc == extract_notes_and_conversations(ticket_info)
        timeline == IF Truthy(nc.notes) \/ Truthy(nc.conversations)
                    THEN combine_notes_and_conversations(nc.notes.val, nc.conversations.val)
                    ELSE PyList(NoHistory)
    IN
    IF IsRaise(timeline) THEN Ended("Failed", timeline.exc)
    ELSE IF AlreadyMatched(displayId, matched) THEN Ended("Matched", "")
    ELSE
    LET new_syncro_ticket ==
            syncro_prepare_ticket_json_superops(client, ticket_id, subject,
                                                converted_created_time)
        ticket_created_time == Strptime(new_syncro_ticket.created_at)
    IN
    IF TooOld(ticket_created_time) THEN Ended("CutoffSkipped", "UnboundLocalError")
    ELSE [status |-> "Create", payload |-> new_syncro_ticket, timeline |-> timeline.val]

\* (mutant) DESCRIPTION entries are replayed like the others
ReplayAll(entry) == FALSE

\* entry.get("type") == "DESCRIPTION"
IsDescription(entry) == entry.type = DESCRIPTION

\* the entries of the timeline the loop builds a comment for
CommentEntries(timeline) == {i \in 1..Len(timeline) : ~IsDescription(timeline[i])}

Call(op, client, ticket_id, subject, entry, dest_id, ok) ==
    [run |-> run, op |-> op, client |-> client, ticket |-> ticket_id, subject |-> subject,
     entry |-> entry, dest_id |-> dest_id, ok |-> ok]

\* (mutant) a comment that fails ends the loop over the timeline
NextEntryStop(outcome, from, n) == IF outcome = "ok" THEN from + 1 ELSE n + 1

\* lines 536-543: the try is inside the loop body, so after a comment that failed the
\* loop takes the next entry as it does after one that succeeded
NextEntry(outcome, from, n) == from + 1

\* lines 526-543: the entries the try block is entered for, in the order of the loop
RECURSIVE Attempted(_, _, _)
Attempted(timeline, from, comment) ==
    IF from > Len(timeline) THEN <<>>
    ELSE IF IsDescription(timeline[from]) THEN Attempted(timeline, from + 1, comment)
    ELSE <<from>> \o Attempted(timeline, NextEntry(comment[from], from, Len(timeline)),
                               comment)

\* lines 526-543: the createComment calls, in the order of the timeline; the comment
\* of an entry whose build fails is never submitted
RECURSIVE CommentCalls(_, _, _, _, _, _)
CommentCalls(client, ticket_id, timeline, from, dest_id, comment) ==
    IF from > Len(timeline) THEN <<>>
    ELSE IF IsDescription(timeline[from])
    THEN CommentCalls(client, ticket_id, timeline, from + 1, dest_id, comment)
    ELSE LET rest == CommentCalls(client, ticket_id, timeline,
                                  NextEntry(comment[from], from, Len(timeline)),
                                  dest_id, comment)
         IN  IF comment[from] = "build_error" THEN rest
             ELSE <<Call("createComment", client, ticket_id, None, from, dest_id,
                         comment[from] = "ok")>> \o rest

\* lines 542-543: how often the handler of a failed comment runs
CommentErrors(timeline, comment) ==
    LET tried == Attempted(timeline, 1, comment) IN
    Cardinality({i \in 1..Len(tried) : comment[tried[i]] # "ok"})

\* (mutant) the response of syncro_create_ticket is not looked at
ResponseAny(create) == TRUE

\* line 517: created_ticket_response and "ticket" in created_ticket_response
ResponseHasTicket(create) == create = "ok"

\* (mutant) the comments are submitted under the id of the source ticket
SourceTicketId(ticket_id, created_ticket_id) == ticket_id

\* lines 518 and 541: syncro_create_comment is called with created_ticket_id, the id
\* in the response of syncro_create_ticket
CommentTicketId(ticket_id, created_ticket_id) == created_ticket_id

\* lines 513-547: the call of syncro_create_ticket and what follows it.  The result
\* holds the calls issued and the destination ticket created, if any.
AfterCreate(client, ticket_id, plan, dest_id, create, comment) ==
    LET subject == plan.payload.subject
        createCall == Call("createTicket", client, ticket_id, subject, 0,
                           IF create = "ok" THEN dest_id ELSE 0, create = "ok")
    IN
    IF create = "raise"
    THEN [status |-> "Failed", exc |-> "CreateError", calls |-> <<createCall>>,
          created |-> <<>>, errors |-> 0, attempted |-> <<>>]
    ELSE IF ~ResponseHasTicket(create)
    THEN [status |-> "CreateFailed", exc |-> "", calls |-> <<createCall>>,
          created |-> <<>>, errors |-> 0, attempted |-> <<>>]
    ELSE LET ticket == [subject |-> subject, created_at |-> plan.payload.created_at,
                        id |-> dest_id]
         IN  IF plan.timeline = NoHistory
             THEN [status |-> "Created", exc |-> "AttributeError",
                   calls |-> <<createCall>>, errors |-> 0, attempted |-> <<>>,
                   created |-> IF create = "ok" THEN <<ticket>> ELSE <<>>]
             ELSE [status |-> "CommentsReplayed", exc |-> "",
                   errors |-> CommentErrors(plan.timeline, comment),
                   attempted |-> Attempted(plan.timeline, 1, comment),
                   calls |-> <<createCall>> \o
                            CommentCalls(client, ticket_id, plan.timeline, 1,
                                         CommentTicketId(ticket_id, dest_id), comment),
                   created |-> IF create = "ok" THEN <<ticket>> ELSE <<>>]

(***************************************************************************)
(* The source data and the destination the orchestrator is run on.         *)
(***************************************************************************)
BeforeCutoff == Time(<<2024, 3, 31, 23, 59, 59>>, 0 - 300)
AtCutoff == Time(<<2024, 4, 1, 0, 0, 0>>, 0 - 300)
AfterCutoff == Time(<<2024, 5, 1, 0, 0, 0>>, 0)

Ticket(subject, displayId, created_time, notes, conversations) ==
    [subject |-> subject, displayId |-> displayId, created_time |-> created_time,
     notes |-> notes, conversations |-> conversations]

DescriptionConv == Conv(DESCRIPTION, PyDict(Lit("Customer")), PyInt(2), Absent)
TechConv == Conv(TECH_REPLY, PyDict(Lit("Tech1")), PyInt(3), PyList(<<Lit("User1")>>))

\* a reply and a description
OneReply == PyList(<<TechConv, DescriptionConv>>)
\* a description alone: nothing to replay
DescOnly == PyList(<<DescriptionConv>>)
\* two notes, later first; with DescOnly the description lies between them
TwoNotes == PyList(<<Note(PyDict(Lit("Ann")), PyInt(3)), Note(Absent, PyInt(1))>>)
\* a note whose author is null
NullAuthor == PyList(<<Note(None, PyInt(1))>>)

TicketPool ==
    { Ticket(Subject(Fix), PyInt(12), AfterCutoff, TwoNotes, DescOnly),
      Ticket(Subject(Fix), PyInt(12), AtCutoff, PyList(<<>>), DescOnly),
      Ticket(Subject(Fix), PyInt(12), BeforeCutoff, PyList(<<>>), OneReply),
      Ticket(Subject(Fix), PyInt(12), None, PyList(<<>>), OneReply),
      Ticket(Subject(Fix), PyInt(12), AfterCutoff, PyList(<<>>), PyList(<<>>)),
      Ticket(Subject(Fix), PyInt(12), AfterCutoff, NullAuthor, OneReply),
      Ticket(Subject(Fix), PyInt(77), AfterCutoff, None, OneReply),
      Ticket(Subject(<<>>), None, AfterCutoff, PyList(<<>>), DescOnly),
      Ticket(None, PyInt(12), AfterCutoff, PyList(<<>>), OneReply) }

\* the tickets the migration is run twice on
RerunPool ==
    { Ticket(Subject(Fix), PyInt(12), AfterCutoff, PyList(<<>>), OneReply),
      Ticket(Subject(Fix), PyInt(77), AfterCutoff, PyList(<<>>), DescOnly),
      Ticket(Subject(Fix), PyInt(0), AfterCutoff, PyList(<<>>), DescOnly),
      Ticket(Subject(Fix), None, AfterCutoff, PyList(<<>>), DescOnly),
      Ticket(Subject(<<>>), PyInt(12), AfterCutoff, PyList(<<>>), DescOnly) }

Clients == <<"Acme", "Ghost", "Beta">>

\* the destination knows Acme and Beta; Acme holds a ticket of earlier work
SyncroInit ==
    [c \in {"Acme", "Ghost", "Beta"} |->
        IF c = "Acme"
        THEN <<[subject |-> Subject(Resolved77),
                created_at |-> get_syncro_created_date(AfterCutoff), id |-> 1]>>
        ELSE <<>>]

OneTicket == <<Ticket(Subject(Fix), PyInt(12), AfterCutoff, PyList(<<>>), PyList(<<>>))>>

\* the tickets of Acme are drawn from the pool; Ghost and Beta hold one ticket each
SourceData(acme) ==
    <<[name |-> "Acme", tickets |-> acme],
      [name |-> "Ghost", tickets |-> OneTicket],
      [name |-> "Beta", tickets |-> OneTicket]>>

PureIdle == args = <<>> /\ result = NotCalled

Init ==
    /\ \E acme \in SeqsUpTo(TicketPool, MaxTickets) : customers_tickets = SourceData(acme)
    /\ syncro_customers = {"Acme", "Beta"}
    /\ syncro_tickets = SyncroInit
    /\ run = 1
    /\ lastRun = 1
    /\ pc = "customer"
    /\ ci = 1
    /\ ti = 0
    /\ matched_ticket_ids = <<>>
    /\ calls = <<>>
    /\ outcomes = <<>>
    /\ custlog = <<>>
    /\ PureIdle

(***************************************************************************)
(* process_tickets and process_customer_tickets (lines 398-451).           *)
(***************************************************************************)
\* get_customer_id_by_name: an identifier for a name the destination knows
get_customer_id_by_name(client) ==
    IF client \in syncro_customers THEN PyInt(1) ELSE None

\* (mutant) the identifier is not looked at
AnyCustomerId(syncro_customer_id) == TRUE

\* line 428: the customer is processed when the identifier is truthy
CustomerFound(syncro_customer_id) == Truthy(syncro_customer_id)

\* the loop of process_tickets goes on with the next customer, or the run is over
NextCustomer ==
    /\ ci' = ci + 1
    /\ ti' = 0
    /\ pc' = IF ci + 1 > Len(customers_tickets) THEN "done" ELSE "customer"

CustomerEntry(client, begin, matched) ==
    [run |-> run, client |-> client, begin |-> begin, matched |-> matched]

\* lines 423-446: the customer is looked up, its destination tickets are fetched and
\* compared with its source tickets
StartCustomer ==
    /\ pc = "customer"
    /\ LET client == customers_tickets[ci].name
           tickets == customers_tickets[ci].tickets
       IN  IF ~CustomerFound(get_customer_id_by_name(client))
           THEN /\ custlog' = Append(custlog, CustomerEntry(client, "NotFound", <<>>))
                /\ matched_ticket_ids' = <<>>
                /\ NextCustomer
           ELSE \E fetch \in FetchOutcomes :
                IF fetch = "raise"
                THEN /\ custlog' = Append(custlog, CustomerEntry(client, "FetchError", <<>>))
                     /\ matched_ticket_ids' = <<>>
                     /\ NextCustomer
                ELSE LET fetched == IF fetch = "ok" THEN syncro_tickets[client] ELSE <<>>
                         subjects_dates == extract_ticket_subjects_and_dates(fetched)
                         matched == compare_tickets_by_subject(tickets, subjects_dates)
                     IN  /\ custlog' = Append(custlog, CustomerEntry(client, fetch, matched))
                         /\ matched_ticket_ids' = matched
                         /\ IF tickets = <<>>
                            THEN NextCustomer
                            ELSE ci' = ci /\ ti' = 1 /\ pc' = "ticket"
    /\ UNCHANGED <<customers_tickets, syncro_customers, syncro_tickets, run, lastRun,
                   calls, outcomes, args, result>>

\* (mutant) an exception of one ticket ends the loop over the customer's tickets
TicketPosAbort(status, pos, n) == IF status = "Failed" THEN n + 1 ELSE pos + 1

\* lines 447-448 and 550-551: whatever happened to the ticket, the next one is taken
NextTicketPos(status, pos, n) == pos + 1

Outcome(client, ticket_id, r) ==
    [run |-> run, client |-> client, ticket |-> ticket_id, status |-> r.status,
     exc |-> r.exc, errors |-> r.errors, attempted |-> r.attempted]

\* the identifier the destination gives its next ticket
NextDestId ==
    1 + Len(syncro_tickets["Acme"]) + Len(syncro_tickets["Ghost"]) + Len(syncro_tickets["Beta"])

\* what one call of process_individual_ticket leaves behind
Processed(client, ticket_id, n, r) ==
    /\ outcomes' = Append(outcomes, Outcome(client, ticket_id, r))
    /\ calls' = calls \o r.calls
    /\ syncro_tickets' = [syncro_tickets EXCEPT ![client] = @ \o r.created]
    /\ LET pos == NextTicketPos(r.status, ticket_id, n) IN
       IF pos > n
       THEN NextCustomer
       ELSE ci' = ci /\ ti' = pos /\ pc' = "ticket"

\* one call of process_individual_ticket, for the ticket the loop is at
ProcessTicket ==
    /\ pc = "ticket"
    /\ LET client == customers_tickets[ci].name
           tickets == customers_tickets[ci].tickets
           plan == BeforeCreate(client, ti, tickets[ti], matched_ticket_ids)
       IN  IF plan.status # "Create"
           THEN Processed(client, ti, Len(tickets), plan)
           ELSE \E create \in CreateOutcomes :
                \E comment \in [IF ResponseHasTicket(create) /\ plan.timeline # NoHistory
                                THEN CommentEntries(plan.timeline) ELSE {}
                                -> CommentOutcomes] :
                Processed(client, ti, Len(tickets),
                          AfterCreate(client, ti, plan, NextDestId, create, comment))
    /\ UNCHANGED <<customers_tickets, syncro_customers, run, lastRun, matched_ticket_ids,
                   custlog, args, result>>

Next == StartCustomer \/ ProcessTicket

Spec == Init /\ [][Next]_vars

\* the migration is started again over the same source data (line 604-605, run anew)
NextRun ==
    /\ pc = "done"
    /\ run < lastRun
    /\ run' = run + 1
    /\ ci' = 1
    /\ ti' = 0
    /\ pc' = "customer"
    /\ matched_ticket_ids' = <<>>
    /\ UNCHANGED <<customers_tickets, syncro_customers, syncro_tickets, lastRun, calls,
                   outcomes, custlog, args, result>>

InitRerun ==
    /\ \E acme \in SeqsUpTo(RerunPool, MaxTickets) :
            customers_tickets = <<[name |-> "Acme", tickets |-> acme]>>
    /\ syncro_customers = {"Acme", "Beta"}
    /\ syncro_tickets = SyncroInit
    /\ run = 1
    /\ lastRun = 2
    /\ pc = "customer"
    /\ ci = 1
    /\ ti = 0
    /\ matched_ticket_ids = <<>>
    /\ calls = <<>>
    /\ outcomes = <<>>
    /\ custlog = <<>>
    /\ PureIdle

NextRerun == StartCustomer \/ ProcessTicket \/ NextRun

SpecRerun == InitRerun /\ [][NextRerun]_vars

(***************************************************************************)
(* What the claims speak of, read off the logs.                            *)
(***************************************************************************)
\* the calls of one kind issued for one source ticket in one run
CallsFor(r, client, ticket_id, op) ==
    {k \in 1..Len(calls) : /\ calls[k].run = r
                           /\ calls[k].client = client
                           /\ calls[k].ticket = ticket_id
                           /\ calls[k].op = op}

\* the source tickets of a customer
TicketsOf(client) ==
    customers_tickets[CHOOSE i \in 1..Len(customers_tickets) :
                          customers_tickets[i].name = client].tickets

\* the entries process_customer_tickets logged for a customer in a run
CustomerEntries(r, client) ==
    {k \in 1..Len(custlog) : custlog[k].run = r /\ custlog[k].client = client}

\* Strategy B reported the display id of the ticket as present, in that run
ReportedMatched(r, client, ticket_id) ==
    \E c \in CustomerEntries(r, client) :
        \E m \in 1..Len(custlog[c].matched) :
            custlog[c].matched[m] = TicketsOf(client)[ticket_id].displayId

\* the ticket has a subject and a created time that was converted
HasConvertedTime(info) == info.subject.tag = "str" /\ info.created_time.tag = "time"

\* the converted created time is earlier than 2024-04-01T00:00:00, field by field
EarlierThanCutoff(info) ==
    LET d == info.created_time.date IN
    \/ d[1] < 2024
    \/ d[1] = 2024 /\ d[2] < 4

\* C3: a ticket whose display id Strategy B reported as present for the customer
\* causes no createTicket and no createComment call.
C3_MatchedIsTerminal ==
    \A k \in 1..Len(outcomes) :
        LET o == outcomes[k] IN
        ReportedMatched(o.run, o.client, o.ticket)
            => /\ CallsFor(o.run, o.client, o.ticket, "createTicket") = {}
               /\ CallsFor(o.run, o.client, o.ticket, "createComment") = {}

\* C3 witness: display id 77 was matched by "Printer broken 77 (resolved)" and the
\* ticket was processed.
C3_Witness ==
    \E k \in 1..Len(outcomes) :
        /\ outcomes[k].status = "Matched"
        /\ TicketsOf(outcomes[k].client)[outcomes[k].ticket].displayId = PyInt(77)
        /\ \E j \in 1..Len(syncro_tickets[outcomes[k].client]) :
               syncro_tickets[outcomes[k].client][j].subject = Subject(Resolved77)

\* C2 (as claimed): a ticket with subject and created time, whose display id is not in
\* the match set and whose converted created time is not earlier than the cutoff,
\* gets exactly one createTicket call, with the subject "<subject> <display id>".
C2_ExactlyOneCreate ==
    \A k \in 1..Len(outcomes) :
        LET o == outcomes[k]
            info == TicketsOf(o.client)[o.ticket]
            made == CallsFor(o.run, o.client, o.ticket, "createTicket")
        IN  ( /\ HasConvertedTime(info)
              /\ ~ReportedMatched(o.run, o.client, o.ticket)
              /\ ~EarlierThanCutoff(info) )
            => /\ Cardinality(made) = 1
               /\ \A c \in made :
                      calls[c].subject.val =
                          info.subject.val \o <<" ">> \o StrOf(info.displayId)

\* C4 (as claimed): an unmatched ticket converted to a time before the cutoff causes
\* no createTicket call; one converted to the cutoff or later causes one.
C4_StrictCutoff ==
    \A k \in 1..Len(outcomes) :
        LET o == outcomes[k]
            info == TicketsOf(o.client)[o.ticket]
            made == CallsFor(o.run, o.client, o.ticket, "createTicket")
        IN  (HasConvertedTime(info) /\ ~ReportedMatched(o.run, o.client, o.ticket))
            => IF EarlierThanCutoff(info) THEN made = {} ELSE made # {}

\* the entries of a ticket's history that are no description
NonDescriptions(info) ==
    LET nc == extract_notes_and_conversations(info) IN
    Len(nc.notes.val)
    + Cardinality({j \in 1..Len(nc.conversations.val) :
                       Get(nc.conversations.val[j].type, Unknown) # DESCRIPTION})

\* C5: after a successful createTicket for a ticket with a history, and when no
\* comment fails, there is one createComment call per entry that is no DESCRIPTION,
\* and none for a DESCRIPTION entry.
C5_DescriptionNotReplayed ==
    \A k \in 1..Len(outcomes) :
        LET o == outcomes[k]
            info == TicketsOf(o.client)[o.ticket]
            nc == extract_notes_and_conversations(info)
            comments == CallsFor(o.run, o.client, o.ticket, "createComment")
        IN  ( /\ \E c \in CallsFor(o.run, o.client, o.ticket, "createTicket") : calls[c].ok
              /\ (nc.notes.val # <<>> \/ nc.conversations.val # <<>>)
              /\ o.errors = 0 )
            => /\ Cardinality(comments) = NonDescriptions(info)
               /\ \A c \in comments :
                      combine_notes_and_conversations(
                          nc.notes.val, nc.conversations.val).val[calls[c].entry].type
                      # DESCRIPTION

\* C5 witness: a ticket with one description and two notes was created and got
\* exactly two comments.
C5_Witness ==
    \E k \in 1..Len(outcomes) :
        LET o == outcomes[k]
            info == TicketsOf(o.client)[o.ticket]
        IN  /\ o.status = "CommentsReplayed"
            /\ o.errors = 0
            /\ info.notes = TwoNotes
            /\ info.conversations = DescOnly
            /\ Cardinality(CallsFor(o.run, o.client, o.ticket, "createComment")) = 2

\* C10: when a run is over, every customer was taken up, and for every customer whose
\* loop over the tickets began, every ticket was processed, whatever exception the
\* tickets before it raised.
C10_FaultIsolation ==
    pc = "done" =>
        \A i \in 1..Len(customers_tickets) :
            LET client == customers_tickets[i].name IN
            /\ CustomerEntries(run, client) # {}
            /\ \A c \in CustomerEntries(run, client) :
                   custlog[c].begin \in {"ok", "empty"}
                       => \A t \in 1..Len(customers_tickets[i].tickets) :
                              \E k \in 1..Len(outcomes) :
                                  /\ outcomes[k].run = run
                                  /\ outcomes[k].client = client
                                  /\ outcomes[k].ticket = t

\* C10 witness: the first ticket of Acme raised, the second was created all the
\* same, and the ticket of Beta was processed.
C10_Witness ==
    /\ pc = "done"
    /\ \E k \in 1..Len(outcomes) :
           /\ outcomes[k].client = "Acme"
           /\ outcomes[k].ticket = 1
           /\ outcomes[k].exc = "TypeError"
    /\ \E c \in CallsFor(1, "Acme", 2, "createTicket") : calls[c].ok
    /\ \E k \in 1..Len(outcomes) : outcomes[k].client = "Beta"

\* C1 (as claimed): a source ticket whose createTicket call succeeded in the first
\* run gets no createTicket call in the second, when the second run fetched the
\* customer's destination tickets.
C1_Idempotent ==
    \A c1 \in 1..Len(calls) :
        ( /\ calls[c1].run = 1
          /\ calls[c1].op = "createTicket"
          /\ calls[c1].ok
          /\ \E c \in CustomerEntries(2, calls[c1].client) : custlog[c].begin = "ok" )
        => CallsFor(2, calls[c1].client, calls[c1].ticket, "createTicket") = {}

(***************************************************************************)
(* The claims about the pure functions.                                    *)
(***************************************************************************)
\* how often x occurs in the sequence s
Count(s, x) == Cardinality({i \in 1..Len(s) : s[i] = x})

\* content and timestamp of every input of the merge, notes first, with the defaults
\* of a missing field
MergeInputs ==
    [i \in 1..Len(args.notes) |->
        <<Get(args.notes[i].content, NoContent), Get(args.notes[i].addedOn, UnknownTime)>>]
    \o
    [i \in 1..Len(args.conversations) |->
        <<Get(args.conversations[i].content, NoContent),
          Get(args.conversations[i].time, UnknownTime)>>]

\* the timestamps of the inputs can be compared with one another
MergeComparable ==
    \A i, j \in 1..Len(MergeInputs) :
        i # j => Comparable(MergeInputs[i][2], MergeInputs[j][2])

\* C6 (as claimed): for notes and conversations with mutually comparable timestamps
\* the merge returns one entry per note and per conversation, in non-decreasing order
\* of timestamp, and the one-element sentinel list when both inputs are empty.
C6_MergedTimeline ==
    (pc = "returned" /\ MergeComparable) =>
        /\ result.tag = "list"
        /\ IF MergeInputs = <<>>
           THEN result.val = <<Lit("No notes or conversations found.")>>
           ELSE LET out == [i \in 1..Len(result.val) |->
                               <<result.val[i].content, result.val[i].time>>]
                IN  /\ Len(out) = Len(MergeInputs)
                    /\ \A i \in 1..Len(out) : Count(out, out[i]) = Count(MergeInputs, out[i])
                    /\ \A i, j \in 1..Len(out) :
                           i < j => ~PyLess(result.val[j].time, result.val[i].time)

\* the TECH_REPLY entries handed to get_assigned_tech_and_user
Replies == SelectSeq(args.conversations, LAMBDA c : c.type = TECH_REPLY)

\* what the function returns for the reply e
ReplyData(e) ==
    [tech |-> IF e.user = Absent THEN None ELSE e.user,
     to_users |-> IF e.toUsers = Absent THEN PyList(<<>>) ELSE e.toUsers]

\* the reply e carries a timestamp and no reply carries a greater one
IsLatest(e) ==
    /\ e.time # Absent
    /\ \A j \in 1..Len(Replies) :
           (Replies[j].time # Absent /\ Comparable(e.time, Replies[j].time))
               => ~PyLess(e.time, Replies[j].time)

\* the reply e carries a timestamp and no reply carries a smaller one
IsEarliest(e) ==
    /\ e.time # Absent
    /\ \A j \in 1..Len(Replies) :
           (Replies[j].time # Absent /\ Comparable(e.time, Replies[j].time))
               => ~PyLess(Replies[j].time, e.time)

\* every reply carries a timestamp, and the timestamps can be compared
RepliesTimed ==
    /\ \A i \in 1..Len(Replies) : Replies[i].time # Absent
    /\ \A i, j \in 1..Len(Replies) : i # j => Comparable(Replies[i].time, Replies[j].time)

C8_EarliestTechReply ==
    ( /\ pc = "returned"
      /\ RepliesTimed
      /\ Len(Replies) >= 2
      /\ \A i, j \in 1..Len(Replies) : i # j => Replies[i].time # Replies[j].time )
    => \E i \in 1..Len(Replies) : IsEarliest(Replies[i]) /\ result = ReplyData(Replies[i])

\* the characters of a occur in b from position i + 1 on
OccursAt(a, b, i) == i + Len(a) <= Len(b) /\ \A k \in 1..Len(a) : b[i + k] = a[k]

\* some destination ticket with a subject holds the string of the display id d
SomeSubjectHolds(d) ==
    \E j \in 1..Len(args.syncro_tickets) :
        LET subject == args.syncro_tickets[j].subject IN
        /\ subject.tag = "str"
        /\ subject.val # <<>>
        /\ \E i \in 0..Len(subject.val) : OccursAt(StrOf(d), subject.val, i)

\* the source ticket passes the tests of a missing subject and a missing display id
\* (lines 361-366): the empty subject and the display id 0 count as missing
HasSubjectAndDisplayId(info) == Truthy(info.subject) /\ Truthy(info.displayId)

\* C9: for a source ticket with a subject and a display id, the display id is in the
\* list returned if and only if its string form occurs in the subject of some
\* destination ticket that has a subject.
C9_SubstringMatch ==
    pc = "returned" =>
        \A i \in 1..Len(args.superops_tickets) :
            LET info == args.superops_tickets[i] IN
            HasSubjectAndDisplayId(info)
                => (Count(result.val, info.displayId) > 0 <=> SomeSubjectHolds(info.displayId))

\* C9 witness: display id 45 was reported matched by the subject "Order 4521" alone.
C9_Witness ==
    /\ pc = "returned"
    /\ Len(args.superops_tickets) = 1
    /\ args.superops_tickets[1].displayId = PyInt(45)
    /\ args.syncro_tickets = <<DstTicket(Subject(Order4521))>>
    /\ result = PyList(<<PyInt(45)>>)

(***************************************************************************)
(* Further claims about the orchestrator.                                  *)
(***************************************************************************)
\* the merged timeline of a ticket whose merge does not raise
TimelineOf(info) ==
    LET nc == extract_notes_and_conversations(info) IN
    combine_notes_and_conversations(nc.notes.val, nc.conversations.val).val

\* positions of the timeline's entries that are no description, in order
NonDescriptionPositions(timeline) ==
    SelectSeq([i \in 1..Len(timeline) |-> i], LAMBDA i : timeline[i].type # DESCRIPTION)

\* C11: when the comment of a timeline entry fails to be built or submitted, the
\* comment of every entry that is no description is attempted all the same, the
\* later ones included, and the ticket does not end as Failed.
C11_CommentFaultIsolation ==
    \A k \in 1..Len(outcomes) :
        LET o == outcomes[k] IN
        o.errors > 0
            => /\ o.status = "CommentsReplayed"
               /\ o.exc = ""
               /\ o.attempted = NonDescriptionPositions(TimelineOf(TicketsOf(o.client)[o.ticket]))

\* C11 witness: of two notes around a description the comment of the first failed
\* and the comment of the second was submitted.
C11_Witness ==
    \E k \in 1..Len(outcomes) :
        LET o == outcomes[k]
            made == CallsFor(o.run, o.client, o.ticket, "createComment")
        IN  /\ TicketsOf(o.client)[o.ticket].notes = TwoNotes
            /\ o.errors = 1
            /\ o.attempted = <<1, 3>>
            /\ \A c \in made : calls[c].entry = 3 /\ calls[c].ok
            /\ made # {}

(***************************************************************************)
(* Aggregation: get_all_clients_with_tickets (lines 242-272) and           *)
(* get_tickets_for_client (lines 154-197), run against a source platform   *)
(* that answers the paged queries of lines 35-38.  args holds the source   *)
(* platform, result the locals of the two functions:                       *)
(*   ncalls          make_api_call calls issued so far                     *)
(*   clients         the client page the outer loop iterates               *)
(*   client          position of the outer loop in it                      *)
(*   page, tickets   the locals of get_tickets_for_client                  *)
(*   requests        the getTicketList queries issued so far: account,     *)
(*                   page, and whether the answer reported hasMore         *)
(*   client_tickets  the mapping built, as a sequence of [name, tickets]   *)
(***************************************************************************)
\* pageSize of the one getClientList call (line 244)
ClientPageSize == 100

\* page_size of get_tickets_for_client (line 158)
TicketPageSize == 10

\* the largest number of clients, and of tickets of one client, the source holds
MaxClients == 101
MaxClientTickets == 21

Min(a, b) == IF a < b THEN a ELSE b

\* the server's answer to a paged list query: the page-th slice of pageSize items
PageOf(items, page, pageSize) ==
    IF (page - 1) * pageSize >= Len(items) THEN <<>>
    ELSE SubSeq(items, (page - 1) * pageSize + 1, Min(page * pageSize, Len(items)))

\* the clients of the source platform: { accountId name }
SourceClients == [a \in 1..args.nclients |-> [accountId |-> a, name |-> a]]

\* a ticket as getTicketList returns it
SourceTicket(ticketId, displayId) ==
    [ticketId |-> ticketId, displayId |-> PyInt(displayId), subject |-> Subject(Fix),
     status |-> Lit("Open"), priority |-> Absent, createdTime |-> AfterCutoff]

\* the tickets of an account: the first client holds args.ntickets tickets, of which
\* the one at args.noId has no ticket id; every other client holds one ticket
SourceTickets(accountId) ==
    IF accountId = 1
    THEN [j \in 1..args.ntickets |->
             SourceTicket(IF j = args.noId THEN None ELSE PyInt(j), j)]
    ELSE <<SourceTicket(PyInt(1000 + accountId), 1000 + accountId)>>

\* the conversations and notes the source holds for every ticket
SourceConversations ==
    <<[type |-> DESCRIPTION, content |-> Lit("<p>text</p>"), user |-> Absent,
       time |-> PyInt(2), toUsers |-> Absent]>>
SourceNotes ==
    <<[content |-> Lit("<b>note</b>"), addedBy |-> PyDict(Lit("Ann")), addedOn |-> PyInt(3)]>>

\* make_api_call (lines 41-54): the k-th call returns None when the request fails
ApiFails(k) == k = args.failAt \/ k = args.failAlso

\* strip_html (lines 57-60): the text without the tags
strip_html(content) ==
    IF content = Lit("<p>text</p>") THEN Lit("text")
    ELSE IF content = Lit("<b>note</b>") THEN Lit("note")
    ELSE content

\* get_ticket_conversations (lines 121-135), issued as call k
get_ticket_conversations(k) ==
    IF ApiFails(k) THEN <<>>
    ELSE [i \in 1..Len(args.conversations) |->
             [args.conversations[i] EXCEPT
                 !.user = IF @ = Absent THEN PyDict(Absent) ELSE @,
                 !.content = strip_html(Get(@, Lit("")))]]

\* get_ticket_notes (lines 138-151), issued as call k
get_ticket_notes(k) ==
    IF ApiFails(k) THEN <<>>
    ELSE [i \in 1..Len(SourceNotes) |->
             [SourceNotes[i] EXCEPT !.content = strip_html(Get(@, Lit("")))]]

\* get_description_content (lines 110-118)
get_description_content(conversations) ==
    LET found == {i \in 1..Len(conversations) : conversations[i].type = DESCRIPTION} IN
    IF found = {} THEN None
    ELSE GetOrNone(conversations[CHOOSE i \in found : \A j \in found : i <= j].content)

\* extract_ticket_details (lines 62-77) and lines 263-265
TicketInfo(ticket) ==
    LET assigned == get_assigned_tech_and_user(ticket.conversations) IN
    [displayId |-> GetOrNone(ticket.displayId),
     ticketId |-> GetOrNone(ticket.ticketId),
     subject |-> GetOrNone(ticket.subject),
     status |-> GetOrNone(ticket.status),
     priority |-> GetOrNone(ticket.priority),
     created_time |-> GetOrNone(ticket.createdTime),
     notes |-> PyList(ticket.notes),
     conversations |-> PyList(ticket.conversations),
     assigned_tech |-> assigned.tech,
     contact |-> assigned.to_users,
     description |-> get_description_content(ticket.conversations)]

\* client_ticket_info[ticket_id] = ticket_info (line 267), the dict kept as the
\* sequence of its values in insertion order
PutTicket(client_ticket_info, ticket_info) ==
    IF \E i \in 1..Len(client_ticket_info) :
           client_ticket_info[i].ticketId = ticket_info.ticketId
    THEN [i \in 1..Len(client_ticket_info) |->
             IF client_ticket_info[i].ticketId = ticket_info.ticketId
             THEN ticket_info ELSE client_ticket_info[i]]
    ELSE Append(client_ticket_info, ticket_info)

\* lines 257-267: the tickets with a ticket id, structured; each pass of the loop
\* works on the values of the dict so far and of the tickets left (so_far, rest)
RECURSIVE StructureFrom(_, _)
StructureFrom(client_ticket_info, tickets) ==
    CHOOSE structured \in
        {IF rest = <<>> THEN so_far
         ELSE StructureFrom(
                  IF Truthy(GetOrNone(Head(rest).ticketId))
                  THEN PutTicket(so_far, TicketInfo(Head(rest)))
                  ELSE so_far,
                  Tail(rest)) : so_far \in {client_ticket_info}, rest \in {tickets}} : TRUE

\* client_tickets[client_name] = client_ticket_info (line 269)
PutClient(client_tickets, client_name, client_ticket_info) ==
    LET entry == [name |-> client_name, tickets |-> client_ticket_info] IN
    IF \E i \in 1..Len(client_tickets) : client_tickets[i].name = client_name
    THEN [i \in 1..Len(client_tickets) |->
             IF client_tickets[i].name = client_name THEN entry ELSE client_tickets[i]]
    ELSE Append(client_tickets, entry)

ClientCounts == {0, 1, 2, ClientPageSize, MaxClients}
TicketCounts == {0, 1, TicketPageSize, TicketPageSize + 1, MaxClientTickets}
\* the call that fails, 0 for none: the client list, a ticket page, a conversation
\* list, a note list, the second ticket page of the first client
FailAts == {0, 1, 2, 3, 4, 2 * TicketPageSize + 3}

\* the source platforms the aggregation is run on: any numbers of clients and
\* tickets with the conversations SourceConversations and at most one call that
\* fails; two clients with one ticket each that hold any conversation list; and two
\* clients where the second ticket page of the first fails and so does the
\* conversation list or the note list of the ticket of the second
Sources ==
    [nclients : ClientCounts, ntickets : TicketCounts, noId : {0, 1}, failAt : FailAts,
     failAlso : {0}, conversations : {SourceConversations}]
    \cup
    [nclients : {2}, ntickets : {1}, noId : {0}, failAt : {0}, failAlso : {0},
     conversations : SeqsUpTo(ConvSet, MaxConvs)]
    \cup
    [nclients : {2}, ntickets : {TicketPageSize + 1}, noId : {0},
     failAt : {2 * TicketPageSize + 3},
     failAlso : {2 * TicketPageSize + 5, 2 * TicketPageSize + 6},
     conversations : {SourceConversations}]

InitAggregate ==
    /\ OrchIdle
    /\ pc = "clients"
    /\ args \in Sources
    /\ result = [ncalls |-> 0, clients |-> <<>>, client |-> 0, page |-> 0,
                 tickets |-> <<>>, client_tickets |-> <<>>, requests |-> <<>>,
                 failed |-> <<>>]

\* lines 244-248: the one getClientList call, page 1 of 100
GetClientList ==
    /\ pc = "clients"
    /\ IF ApiFails(1)
       THEN /\ result' = [result EXCEPT !.ncalls = 1]
            /\ pc' = "returned"
       ELSE LET clients == PageOf(SourceClients, 1, ClientPageSize) IN
            /\ result' = [result EXCEPT !.ncalls = 1, !.clients = clients,
                                        !.client = 1, !.page = 1]
            /\ pc' = IF clients = <<>> THEN "returned" ELSE "tickets"
    /\ UNCHANGED <<args, orchVars>>

\* lines 252-269, once get_tickets_for_client has returned tickets: the client's
\* entry is stored and the outer loop takes the next client
ClientDone(ncalls, tickets, request, failed) ==
    LET client == result.clients[result.client]
        client_ticket_info == StructureFrom(<<>>, tickets)
    IN  /\ result' = [result EXCEPT
                         !.ncalls = ncalls,
                         !.requests = Append(@, request),
                         !.failed = @ \o failed,
                         !.client_tickets = PutClient(@, client.name, client_ticket_info),
                         !.client = @ + 1,
                         !.page = 1,
                         !.tickets = <<>>]
        /\ pc' = IF result.client = Len(result.clients) THEN "returned" ELSE "tickets"

\* (mutant) the loop goes on with the page after the next
SkipPage(page) == page + 2

\* line 195: page += 1
NextPage(page) == page + 1

\* the getTicketList query for a page of an account, and whether the answer reported
\* hasMore (a failed query reports nothing)
TicketRequest(account_id, page, hasMore) ==
    [account |-> account_id, page |-> page, hasMore |-> hasMore]

\* a fetch that failed: the ticket list of an account (ticket_id None), or the
\* conversations or the notes of one of its tickets
FailedFetch(kind, account_id, ticket_id) ==
    [kind |-> kind, account |-> account_id, ticket |-> ticket_id]

\* lines 188-189: the conversation and note fetches that failed for the tickets of
\* a page, from the m-th on; the page was fetched as call k
RECURSIVE FailedFrom(_, _, _, _)
FailedFrom(account_id, tickets, k, m) ==
    IF m > Len(tickets) THEN <<>>
    ELSE (IF ApiFails(k + 2 * m - 1)
          THEN <<FailedFetch("conversations", account_id, tickets[m].ticketId)>>
          ELSE <<>>)
         \o
         (IF ApiFails(k + 2 * m)
          THEN <<FailedFetch("notes", account_id, tickets[m].ticketId)>>
          ELSE <<>>)
         \o FailedFrom(account_id, tickets, k, m + 1)

\* (mutant) a failed page ends the loop with the tickets collected so far
KeepCollected(tickets) == tickets

\* lines 174-179: return [] when the page fetch failed or holds no ticket list
OnFailedPage(tickets) == <<>>

\* one pass of the while loop of get_tickets_for_client (lines 162-195): the page is
\* fetched, conversations and notes are fetched for each of its tickets with a ticket
\* id, and the loop goes on while the server reports hasMore
GetTicketPage ==
    /\ pc = "tickets"
    /\ LET account_id == result.clients[result.client].accountId
           k == result.ncalls + 1
       IN  IF ApiFails(k)
           THEN ClientDone(k, OnFailedPage(result.tickets),
                           TicketRequest(account_id, result.page, FALSE),
                           <<FailedFetch("tickets", account_id, None)>>)
           ELSE LET all == SourceTickets(account_id)
                    listed == PageOf(all, result.page, TicketPageSize)
                    withId == SelectSeq(listed, LAMBDA t : Truthy(GetOrNone(t.ticketId)))
                    fetched == [m \in 1..Len(withId) |->
                                   [ticketId |-> withId[m].ticketId,
                                    displayId |-> withId[m].displayId,
                                    subject |-> withId[m].subject,
                                    status |-> withId[m].status,
                                    priority |-> withId[m].priority,
                                    createdTime |-> withId[m].createdTime,
                                    conversations |-> get_ticket_conversations(k + 2 * m - 1),
                                    notes |-> get_ticket_notes(k + 2 * m)]]
                    hasMore == result.page * TicketPageSize < Len(all)
                    failed == FailedFrom(account_id, withId, k, 1)
                    ncalls == k + 2 * Len(withId)
                IN  IF hasMore
                    THEN /\ result' = [result EXCEPT
                                          !.ncalls = ncalls,
                                          !.page = NextPage(@),
                                          !.tickets = @ \o fetched,
                                          !.failed = @ \o failed,
                                          !.requests =
                                              Append(@, TicketRequest(account_id, result.page,
                                                                      TRUE))]
                         /\ pc' = "tickets"
                    ELSE ClientDone(ncalls, result.tickets \o fetched,
                                    TicketRequest(account_id, result.page, FALSE), failed)
    /\ UNCHANGED <<args, orchVars>>

NextAggregate == GetClientList \/ GetTicketPage

SpecAggregate == InitAggregate /\ [][NextAggregate]_vars

\* the aggregation is sequential code that runs on: a step that can be taken is taken
SpecAggregateFair == SpecAggregate /\ WF_vars(NextAggregate)

\* C12 (as claimed): when no fetch failed, the mapping returned holds an entry for
\* every client of the source and, under it, an entry for every ticket of the client
\* that has a ticket id, for any number of clients and of tickets.
C12_AggregationComplete ==
    (pc = "returned" /\ args.failAt = 0) =>
        \A a \in 1..args.nclients :
            \E i \in 1..Len(result.client_tickets) :
                /\ result.client_tickets[i].name = SourceClients[a].name
                /\ \A j \in 1..Len(SourceTickets(a)) :
                       SourceTickets(a)[j].ticketId # None
                           => \E t \in 1..Len(result.client_tickets[i].tickets) :
                                  result.client_tickets[i].tickets[t].ticketId
                                      = SourceTickets(a)[j].ticketId

(***************************************************************************)
(* Claims about the ways process_individual_ticket ends.                   *)
(***************************************************************************)
\* the subject of the source ticket is absent, null or empty
SubjectMissing(info) == info.subject \in {Absent, None, Subject(<<>>)}

\* the created time of the source ticket is absent or null
CreatedTimeMissing(info) == info.created_time \in {Absent, None}

\* C13 (as claimed): a ticket whose subject or created time is missing is skipped by
\* the gate, not by an exception, and causes no createTicket and no createComment
\* call.
C13_RequiredFieldGate ==
    \A k \in 1..Len(outcomes) :
        LET o == outcomes[k]
            info == TicketsOf(o.client)[o.ticket]
        IN  (SubjectMissing(info) \/ CreatedTimeMissing(info))
            => /\ o.status = "GateSkipped"
               /\ o.exc = ""
               /\ CallsFor(o.run, o.client, o.ticket, "createTicket") = {}
               /\ CallsFor(o.run, o.client, o.ticket, "createComment") = {}

\* C14 (as claimed): an unmatched ticket whose converted created time is earlier than
\* the cutoff ends with no createTicket call and with no exception caught by the
\* handler of the ticket.
C14_CutoffSkippedNotFailed ==
    \A k \in 1..Len(outcomes) :
        LET o == outcomes[k]
            info == TicketsOf(o.client)[o.ticket]
        IN  ( /\ HasConvertedTime(info)
              /\ ~ReportedMatched(o.run, o.client, o.ticket)
              /\ EarlierThanCutoff(info) )
            => /\ CallsFor(o.run, o.client, o.ticket, "createTicket") = {}
               /\ o.exc = ""

\* the ticket has neither notes nor conversations
NoHistoryAtAll(info) ==
    LET nc == extract_notes_and_conversations(info) IN
    nc.notes.val = <<>> /\ nc.conversations.val = <<>>

\* C15 (as claimed): a ticket without notes and conversations whose createTicket call
\* succeeded gets no createComment call and ends without an exception caught by the
\* handler of the ticket.
C15_SentinelSkipsReplay ==
    \A k \in 1..Len(outcomes) :
        LET o == outcomes[k]
            info == TicketsOf(o.client)[o.ticket]
        IN  ( /\ NoHistoryAtAll(info)
              /\ \E c \in CallsFor(o.run, o.client, o.ticket, "createTicket") : calls[c].ok )
            => /\ CallsFor(o.run, o.client, o.ticket, "createComment") = {}
               /\ o.exc = ""

(***************************************************************************)
(* Claims about malformed authors in combine_notes_and_conversations.      *)
(***************************************************************************)
\* the user field of the conversation is absent, null or no mapping
MalformedUser(conv) == GetOrNone(conv.user).tag # "dict"

\* the conversations, every malformed author replaced by a well-formed one
WithAuthors(conversations) ==
    [i \in 1..Len(conversations) |->
        IF MalformedUser(conversations[i])
        THEN [conversations[i] EXCEPT !.user = PyDict(Lit("Somebody"))]
        ELSE conversations[i]]

\* C16: a malformed author of a conversation does not make the merge raise (the
\* call raises only if it also raises with every such author replaced by a
\* well-formed one), and the timeline holds each such conversation with the author
\* "Unknown".
C16_ConversationAuthorDefaulted ==
    pc = "returned" =>
        /\ IsRaise(result) <=>
               IsRaise(combine_notes_and_conversations(args.notes,
                                                       WithAuthors(args.conversations)))
        /\ ~IsRaise(result) =>
               \A i \in 1..Len(args.conversations) :
                   LET conv == args.conversations[i] IN
                   MalformedUser(conv) =>
                       \E k \in 1..Len(result.val) :
                           result.val[k] = [type |-> Get(conv.type, Unknown),
                                            content |-> Get(conv.content, NoContent),
                                            user |-> Lit("Unknown"),
                                            time |-> Get(conv.time, UnknownTime)]

\* C16 witness: a conversation without a user field and one whose user is a string
\* were merged, both with the author "Unknown".
C16_Witness ==
    /\ pc = "returned"
    /\ args.notes = <<>>
    /\ Len(args.conversations) = 2
    /\ args.conversations[1].user = Absent
    /\ args.conversations[2].user = Lit("Customer")
    /\ result.tag = "list"
    /\ Len(result.val) = 2
    /\ \A k \in 1..2 : result.val[k].user = Lit("Unknown")

\* the author a note's timeline entry is to carry: the display name, else "Unknown"
NoteAuthor(note) ==
    IF note.addedBy # Absent /\ note.addedBy.tag = "dict" /\ note.addedBy.name # Absent
    THEN note.addedBy.name
    ELSE Lit("Unknown")

\* C17 (as claimed): whatever the shape of a note's author field, the merge does not
\* raise and holds a NOTE entry for the note whose author is the display name, or
\* "Unknown" (for inputs whose timestamps can be sorted).
C17_NoteAuthorDefaulted ==
    (pc = "returned" /\ MergeComparable) =>
        /\ ~IsRaise(result)
        /\ \A i \in 1..Len(args.notes) :
               \E k \in 1..Len(result.val) :
                   /\ result.val[k].type = Lit("NOTE")
                   /\ result.val[k].user = NoteAuthor(args.notes[i])
                   /\ result.val[k].time = Get(args.notes[i].addedOn, UnknownTime)

(***************************************************************************)
(* Claims about a creation that failed and about the order of the replay.  *)
(***************************************************************************)
\* the createTicket calls of a run that succeeded
CreatedIn(r) ==
    {c \in 1..Len(calls) : calls[c].run = r /\ calls[c].op = "createTicket" /\ calls[c].ok}

\* the ticket was processed in the run
ProcessedIn(r, client, ticket_id) ==
    \E k \in 1..Len(outcomes) :
        outcomes[k].run = r /\ outcomes[k].client = client /\ outcomes[k].ticket = ticket_id

\* both runs fetched the destination tickets of the customer, with the same result
SameFetch(client) ==
    \E c1 \in CustomerEntries(1, client) :
        \E c2 \in CustomerEntries(2, client) : custlog[c1].begin = custlog[c2].begin

\* the createTicket call of the ticket returned, but without a ticket
CreationFailed(o) ==
    /\ o.exc # "CreateError"
    /\ \E c \in CallsFor(o.run, o.client, o.ticket, "createTicket") : ~calls[c].ok

\* C18: a ticket whose createTicket call got an empty response or one without a
\* ticket gets no createComment call in that run; in the next run, when the first run
\* created nothing (the destination is unchanged) and the fetch gives what it gave,
\* the ticket is unmatched again and its createTicket call is issued again.
C18_FailedCreationRetried ==
    \A k \in 1..Len(outcomes) :
        LET o == outcomes[k] IN
        (o.run = 1 /\ CreationFailed(o))
            => /\ CallsFor(1, o.client, o.ticket, "createComment") = {}
               /\ (CreatedIn(1) = {} /\ SameFetch(o.client) /\ ProcessedIn(2, o.client, o.ticket))
                      => /\ ~ReportedMatched(2, o.client, o.ticket)
                         /\ CallsFor(2, o.client, o.ticket, "createTicket") # {}

\* C18 witness: the creation of a ticket with a reply to replay failed in the first
\* run, no comment was sent, and the second run issued the createTicket call again.
C18_Witness ==
    \E k \in 1..Len(outcomes) :
        LET o == outcomes[k] IN
        /\ o.run = 1
        /\ CreationFailed(o)
        /\ TicketsOf(o.client)[o.ticket].conversations = OneReply
        /\ CreatedIn(1) = {}
        /\ SameFetch(o.client)
        /\ CallsFor(1, o.client, o.ticket, "createComment") = {}
        /\ CallsFor(2, o.client, o.ticket, "createTicket") # {}

\* C19: the createComment calls of a ticket are issued in the order of the merged
\* timeline: of two calls the later one is for a later entry, whose timestamp is not
\* smaller.
C19_ReplayInTimelineOrder ==
    \A c, d \in 1..Len(calls) :
        ( /\ c < d
          /\ calls[c].op = "createComment"
          /\ calls[d].op = "createComment"
          /\ calls[c].run = calls[d].run
          /\ calls[c].client = calls[d].client
          /\ calls[c].ticket = calls[d].ticket )
        => LET timeline == TimelineOf(TicketsOf(calls[c].client)[calls[c].ticket]) IN
           /\ calls[c].entry < calls[d].entry
           /\ ~PyLess(timeline[calls[d].entry].time, timeline[calls[c].entry].time)

\* C19 witness: the ticket lists the note of time 3 before the note of time 1; the
\* comment of the note of time 1 was sent first.
C19_Witness ==
    \E c, d \in 1..Len(calls) :
        /\ c < d
        /\ calls[c].op = "createComment"
        /\ calls[d].op = "createComment"
        /\ calls[c].client = calls[d].client
        /\ calls[c].ticket = calls[d].ticket
        /\ LET info == TicketsOf(calls[c].client)[calls[c].ticket] IN
           /\ info.notes = TwoNotes
           /\ TimelineOf(info)[calls[c].entry].time = PyInt(1)
           /\ TimelineOf(info)[calls[d].entry].time = PyInt(3)

(***************************************************************************)
(* The two matching strategies on tickets with missing fields.             *)
(***************************************************************************)
DatedSrc(subject, displayId, created_time) ==
    [subject |-> subject, displayId |-> displayId, created_time |-> created_time]

DatedSrcSet ==
    { DatedSrc(Subject(Fix), PyInt(77), Time2024),
      DatedSrc(Subject(Fix), PyInt(77), None),
      DatedSrc(Subject(Fix), None, Time2024),
      DatedSrc(Subject(Fix77), PyInt(45), Time2025),
      DatedSrc(Subject(<<>>), PyInt(77), Time2024),
      DatedSrc(None, PyInt(45), Time2024) }

DatedDst(subject, created_at) == [subject |-> subject, created_at |-> created_at]

DatedDstSet ==
    { DatedDst(Subject(Fix), Time2024),
      DatedDst(Subject(Fix77), Time2025),
      DatedDst(Subject(Fix), None),
      DatedDst(None, Time2024),
      DatedDst(Subject(Order4521), Absent) }

InitStrategies ==
    /\ OrchIdle
    /\ pc = "call"
    /\ args \in [superops_tickets : SeqsUpTo(DatedSrcSet, MaxSrc),
                 syncro_tickets : SeqsUpTo(DatedDstSet, MaxDst)]
    /\ result = NotCalled

CallCompareByDate ==
    /\ pc = "call"
    /\ result' = PyList(compare_tickets_by_subject_and_date(args.superops_tickets,
                                                            args.syncro_tickets))
    /\ pc' = "returned by date"
    /\ UNCHANGED <<args, orchVars>>

NextStrategies == CallCompareByDate \/ CallCompare

SpecStrategies == InitStrategies /\ [][NextStrategies]_vars

\* no value occurs twice in the list
NoDuplicates(list) == \A i, j \in 1..Len(list) : i # j => list[i] # list[j]

\* the source ticket and the destination ticket are a match of Strategy A
DateMatch(src, dst) ==
    /\ src.subject \notin {None, Absent, Subject(<<>>)}
    /\ src.created_time \notin {None, Absent}
    /\ dst.subject \notin {None, Absent, Subject(<<>>)}
    /\ dst.created_at \notin {None, Absent}
    /\ src.subject = dst.subject
    /\ src.created_time = dst.created_at

\* the source ticket and the destination ticket are a match of Strategy B
DisplayIdMatch(src, dst) ==
    /\ src.subject \notin {None, Absent, Subject(<<>>)}
    /\ src.displayId \notin {None, Absent, PyInt(0)}
    /\ dst.subject \notin {None, Absent, Subject(<<>>)}
    /\ \E i \in 0..Len(dst.subject.val) : OccursAt(StrOf(src.displayId), dst.subject.val, i)

\* C20: each strategy returns, without duplicates, the identifiers of exactly the
\* source tickets that have the required fields and match some destination ticket
\* that has them: a ticket with a missing field is passed over and the tickets after
\* it are compared all the same.
C20_SkipWithoutAbort ==
    LET src == args.superops_tickets
        dst == args.syncro_tickets
    IN  /\ pc = "returned by date" =>
               /\ NoDuplicates(result.val)
               /\ \A i \in 1..Len(src) :
                      (\E k \in 1..Len(result.val) : result.val[k] = PyInt(i))
                          <=> \E j \in 1..Len(dst) : DateMatch(src[i], dst[j])
               /\ \A k \in 1..Len(result.val) : result.val[k].val \in 1..Len(src)
        /\ pc = "returned" =>
               /\ NoDuplicates(result.val)
               /\ \A i \in 1..Len(src) :
                      (\E j \in 1..Len(dst) : DisplayIdMatch(src[i], dst[j]))
                          => \E k \in 1..Len(result.val) : result.val[k] = src[i].displayId
               /\ \A k \in 1..Len(result.val) :
                      \E i \in 1..Len(src) :
                          /\ src[i].displayId = result.val[k]
                          /\ \E j \in 1..Len(dst) : DisplayIdMatch(src[i], dst[j])

\* C20 witness: Strategy A passed over a source ticket without created time and a
\* destination ticket without subject and matched the tickets behind them.
C20_Witness ==
    /\ pc = "returned by date"
    /\ Len(args.superops_tickets) = 2
    /\ Len(args.syncro_tickets) = 2
    /\ args.superops_tickets[1].created_time = None
    /\ args.syncro_tickets[1].subject = None
    /\ result = PyList(<<PyInt(2)>>)

(***************************************************************************)
(* Claims about the aggregation.                                           *)
(***************************************************************************)
\* max over the TECH_REPLY entries fails: one of them has no time, or two of them
\* have times of different kinds (a number and a string)
ResolutionFails(conversations) ==
    LET replies == {i \in 1..Len(conversations) : conversations[i].type = Lit("TECH_REPLY")}
    IN  \/ \E i \in replies : conversations[i].time = Absent
        \/ \E i, j \in replies : conversations[i].time.tag # conversations[j].time.tag

\* the clients the one getClientList call lists
ListedClients == 1..Min(args.nclients, ClientPageSize)

\* C21: when the resolution of technician and contact fails on the conversations of
\* a ticket, the aggregation still returns the ticket, with no technician and an
\* empty contact list.
C21_ResolutionFailureDegrades ==
    (pc = "returned" /\ args.failAt = 0 /\ ResolutionFails(args.conversations)) =>
        \A a \in ListedClients :
            \A j \in 1..Len(SourceTickets(a)) :
                SourceTickets(a)[j].ticketId # None =>
                    \E i \in 1..Len(result.client_tickets) :
                        /\ result.client_tickets[i].name = a
                        /\ \E t \in 1..Len(result.client_tickets[i].tickets) :
                               LET info == result.client_tickets[i].tickets[t] IN
                               /\ info.ticketId = SourceTickets(a)[j].ticketId
                               /\ Len(info.conversations.val) = Len(args.conversations)
                               /\ info.assigned_tech = None
                               /\ info.contact = PyList(<<>>)

\* C21 witness: the tickets hold a TECH_REPLY with a time and one without; both
\* clients were returned with their ticket, without technician.
C21_Witness ==
    /\ pc = "returned"
    /\ Len(args.conversations) = 2
    /\ args.conversations[1].type = Lit("TECH_REPLY")
    /\ args.conversations[1].time = PyInt(1)
    /\ args.conversations[2].type = Lit("TECH_REPLY")
    /\ args.conversations[2].time = Absent
    /\ Len(result.client_tickets) = 2
    /\ \A i \in 1..2 :
           /\ Len(result.client_tickets[i].tickets) = 1
           /\ result.client_tickets[i].tickets[1].assigned_tech = None

\* the pages requested for an account, in the order of the requests
PagesOf(account_id) ==
    SelectSeq(result.requests, LAMBDA r : r.account = account_id)

\* the pages of an account are requested as 1, 2, 3, ..., and a request is followed
\* by another exactly if its answer reported hasMore
PagesInOrder ==
    \A a \in ListedClients :
        LET pages == PagesOf(a) IN
        /\ \A n \in 1..Len(pages) : pages[n].page = n
        /\ \A n \in 1..Len(pages) : n < Len(pages) => pages[n].hasMore
        /\ \A n \in 1..Len(pages) :
               (pc = "returned" \/ result.client > a) => (n = Len(pages) <=> ~pages[n].hasMore)

\* C22: get_tickets_for_client requests the pages 1, 2, 3, ... in increasing order,
\* each once, stops at the first page whose answer does not report hasMore or fails,
\* and so the aggregation ends against a source with finitely many pages.
C22_PagesInOrderAndTerminates == []PagesInOrder /\ <>(pc = "returned")

\* C22 witness: for a client with more than two pages of tickets the pages 1, 2 and 3
\* were requested, in that order, and the aggregation returned.
C22_Witness ==
    /\ pc = "returned"
    /\ args.failAt = 0
    /\ args.ntickets > 2 * TicketPageSize
    /\ Len(PagesOf(1)) = 3
    /\ \A n \in 1..3 : PagesOf(1)[n].page = n

(***************************************************************************)
(* C23: comments only follow a successful creation.                        *)
(***************************************************************************)
\* the statuses of a ticket that was matched, skipped or whose creation failed
NotCreated == {"Matched", "CutoffSkipped", "GateSkipped", "CreateFailed", "Failed"}

\* C23: every createComment call comes after a successful createTicket call of the
\* same run for the same source ticket and carries the destination id that call
\* returned; no createComment call is issued for a ticket that was matched, skipped
\* by the cutoff or the gate, or whose creation failed.
C23_CommentsFollowCreation ==
    /\ \A k \in 1..Len(calls) :
           calls[k].op = "createComment" =>
               \E j \in 1..(k - 1) :
                   /\ calls[j].op = "createTicket"
                   /\ calls[j].ok
                   /\ calls[j].run = calls[k].run
                   /\ calls[j].client = calls[k].client
                   /\ calls[j].ticket = calls[k].ticket
                   /\ calls[j].dest_id = calls[k].dest_id
    /\ \A n \in 1..Len(outcomes) :
           outcomes[n].status \in NotCreated =>
               CallsFor(outcomes[n].run, outcomes[n].client, outcomes[n].ticket,
                        "createComment") = {}

\* the second run creates a ticket whose creation failed in the first and replays a
\* comment on it, and finds another ticket matched
C23_Witness ==
    /\ pc = "done"
    /\ run = 2
    /\ \E k \in 1..Len(calls) :
           /\ calls[k].op = "createComment"
           /\ calls[k].run = 2
           /\ \E j \in CallsFor(1, calls[k].client, calls[k].ticket, "createTicket") :
                  ~calls[j].ok
    /\ \E n \in 1..Len(outcomes) : outcomes[n].run = 2 /\ outcomes[n].status = "Matched"

(***************************************************************************)
(* C24: a customer the destination does not know is skipped.               *)
(***************************************************************************)
\* the positions of the customers the loop of process_tickets has left behind
CustomersDone == {c \in 1..Len(customers_tickets) : c < ci}

\* C24: for a customer name the destination has no identifier for, no ticket list is
\* fetched and no createTicket or createComment call is issued for any of its
\* tickets, and the customers after it are still processed.
C24_UnknownCustomerSkipped ==
    \A c \in CustomersDone :
        LET client == customers_tickets[c].name IN
        client \notin syncro_customers =>
            /\ \A k \in CustomerEntries(run, client) : custlog[k].begin = "NotFound"
            /\ \A k \in 1..Len(calls) : calls[k].client # client
            /\ \A n \in 1..Len(outcomes) : outcomes[n].client # client
            /\ pc = "done" =>
                   \A d \in (c + 1)..Len(customers_tickets) :
                       LET following == customers_tickets[d].name IN
                       /\ CustomerEntries(run, following) # {}
                       /\ \A k \in CustomerEntries(run, following) :
                              custlog[k].begin \in {"ok", "empty"} =>
                                  \A t \in 1..Len(customers_tickets[d].tickets) :
                                      \E n \in 1..Len(outcomes) :
                                          /\ outcomes[n].run = run
                                          /\ outcomes[n].client = following
                                          /\ outcomes[n].ticket = t

\* Ghost was skipped and the ticket of Beta, the customer after it, was created
C24_Witness ==
    /\ pc = "done"
    /\ \E k \in CustomerEntries(run, "Ghost") : custlog[k].begin = "NotFound"
    /\ TicketsOf("Ghost") # <<>>
    /\ \E k \in CallsFor(run, "Beta", 1, "createTicket") : calls[k].ok

(***************************************************************************)
(* C25: the ticket fetch of a client is all-or-nothing.                    *)
(***************************************************************************)
\* the clients get_tickets_for_client has returned for
ClientsFetched == {a \in ListedClients : pc = "returned" \/ result.client > a}

\* the tickets stored under a client in the mapping
StoredTickets(a) ==
    LET at == {i \in 1..Len(result.client_tickets) : result.client_tickets[i].name = a}
    IN  IF at = {} THEN <<>> ELSE result.client_tickets[CHOOSE i \in at : TRUE].tickets

\* a ticket-list page of the account failed
PageFailed(a) ==
    \E n \in 1..Len(result.failed) :
        result.failed[n].kind = "tickets" /\ result.failed[n].account = a

\* C25: when a ticket-list page of a client fails, no ticket of the client is
\* returned, those of the pages fetched before included; when the conversations or
\* the notes of a ticket fail and no page does, the ticket is still returned, with
\* that list empty.
C25_AllOrNothing ==
    \A a \in ClientsFetched :
        /\ PageFailed(a) => StoredTickets(a) = <<>>
        /\ ~PageFailed(a) =>
               \A n \in 1..Len(result.failed) :
                   result.failed[n].account = a =>
                       \E i \in 1..Len(StoredTickets(a)) :
                           LET stored == StoredTickets(a)[i] IN
                           /\ stored.ticketId = result.failed[n].ticket
                           /\ result.failed[n].kind = "conversations" =>
                                  stored.conversations = PyList(<<>>)
                           /\ result.failed[n].kind = "notes" =>
                                  stored.notes = PyList(<<>>)

\* the second page of the first client failed after its first page had been fetched,
\* and the conversations of the ticket of the second client failed
C25_Witness ==
    /\ pc = "returned"
    /\ Len(PagesOf(1)) = 2
    /\ PagesOf(1)[1].hasMore
    /\ PageFailed(1)
    /\ StoredTickets(1) = <<>>
    /\ \E n \in 1..Len(result.failed) :
           result.failed[n].account = 2 /\ result.failed[n].kind = "conversations"
    /\ Len(StoredTickets(2)) = 1

====
